---- MODULE Spec2Model ----
(***************************************************************************)
(* Open Sentencing Model: the /predict endpoint's record cleaner, the     *)
(* counterfactual generator, the discrepancy estimator and the percentile *)
(* scorer (notebooks/predict.py, the extended variant, and                *)
(* server/routes/predict.py, the legacy variant).                         *)
(*                                                                         *)
(* A data frame is a sequence of rows; a row is a function from column    *)
(* names to values and carries its pandas index label in "idx", which     *)
(* filtering keeps.  A missing string is NA.  A number is a tagged record:*)
(* Num(n) an integer as the caller passed it, Txt(s) a text given as its  *)
(* sequence of characters, NaN a missing number, and Flt(q) a float64     *)
(* held as the integer q = value * Scale, so that division by 12 and by   *)
(* 365 and the mean of two ages are exact.                                *)
(***************************************************************************)
EXTENDS Integers, Sequences, FiniteSets, TLC

VARIABLES
    pc,         \* position in the operation being run
    input,      \* the data frame handed to the operation, as the caller still sees it
    data,       \* clean_data's local data frame (elsewhere: the caller's frame)
    before,     \* data as it was when the latest step started
    last,       \* name of the latest step executed
    trail,      \* the emptiness checks passed so far: <<[step, n]>>
    result,     \* what clean_data returned (or raised)
    raw,        \* request.json of the request being served
    response,   \* what predict() answered
    model,      \* the loaded model, an opaque predictor
    counterfactual, \* what make_counterfactual returned
    est,        \* what estimate_discrepancy returned, extended variant
    legacy,     \* what estimate_discrepancy returned, legacy variant
    new_discrepancy,    \* discrepancy_percentile's first argument
    test_discrepancies, \* the JSON list at discrepancies_path
    percentile, \* what discrepancy_percentile returned
    ties,       \* the order value_counts gives to values of equal frequency
    limit,      \* the n of a top-n consolidation
    once,       \* a batch consolidated once
    twice       \* the same batch consolidated again

cleanVars == <<pc, input, data, before, last, trail, result>>
requestVars == <<raw, response>>
estimateVars == <<model, counterfactual, est, legacy>>
scoreVars == <<new_discrepancy, test_discrepancies, percentile>>
topVars == <<ties, limit, once, twice>>

\* what clean_data has no access to
otherVars == <<requestVars, estimateVars, scoreVars, topVars>>

vars == <<cleanVars, requestVars, estimateVars, scoreVars, topVars>>

----------------------------------------------------------------------------
(* Values *)

Scale == 12 * 365

NA == "<NA>"
NaN == [k |-> "nan"]
Num(n) == [k |-> "num", v |-> n]
Txt(s) == [k |-> "str", s |-> s]
Flt(q) == [k |-> "flt", q |-> q]

\* The columns that hold numbers; the others hold strings
NumberColumns ==
    {"COMMITMENT_TERM", "AGE_AT_INCIDENT", "CHARGE_COUNT", "LENGTH_OF_CASE_in_Days"}

\* The column that holds booleans
FlagColumns == {"PRIMARY_CHARGE_FLAG"}

\* isnull() of row r's value in column c
IsNull(r, c) ==
    IF c \in NumberColumns THEN r[c].k = "nan"
    ELSE IF c \in FlagColumns THEN FALSE
    ELSE r[c] = NA

Min(a, b) == IF a <= b THEN a ELSE b

Abs(a) == IF a < 0 THEN -a ELSE a

Range(s) == {s[i] : i \in 1..Len(s)}

\* data.drop(col, axis=1)
DropColumns(d, cols) ==
    [i \in 1..Len(d) |-> [c \in (DOMAIN d[i]) \ cols |-> d[i][c]]]

\* data[col] = f(data[col]) row by row
MapColumn(d, col, F(_)) ==
    [i \in 1..Len(d) |-> [d[i] EXCEPT ![col] = F(d[i][col])]]

----------------------------------------------------------------------------
(* float(): the text of a number.  The texts of the model are written over *)
(* digits, "-" and letters: an optional sign and at least one digit is a   *)
(* number, anything else raises ValueError.                                *)

Digits == {"0", "1", "2", "3", "4", "5", "6", "7", "8", "9"}

DigitValue(c) ==
    CASE c = "0" -> 0 [] c = "1" -> 1 [] c = "2" -> 2 [] c = "3" -> 3
      [] c = "4" -> 4 [] c = "5" -> 5 [] c = "6" -> 6 [] c = "7" -> 7
      [] c = "8" -> 8 [] c = "9" -> 9

Unsigned(s) == IF Len(s) > 0 /\ s[1] = "-" THEN Tail(s) ELSE s

IsFloatText(s) ==
    /\ Len(Unsigned(s)) > 0
    /\ \A i \in 1..Len(Unsigned(s)) : Unsigned(s)[i] \in Digits

RECURSIVE DigitsValue(_)
DigitsValue(s) ==
    IF Len(s) = 0 THEN 0
    ELSE 10 * DigitsValue(SubSeq(s, 1, Len(s) - 1)) + DigitValue(s[Len(s)])

FloatOfText(s) ==
    IF Len(s) > 0 /\ s[1] = "-" THEN -DigitsValue(Tail(s)) ELSE DigitsValue(s)

\* Series.astype(float) on one value: whether it converts, and to what
CanFloat(v) == v.k = "str" => IsFloatText(v.s)

AsFloat(v) ==
    CASE v.k = "num" -> Flt(v.v * Scale)
      [] v.k = "str" -> Flt(FloatOfText(v.s) * Scale)
      [] v.k = "flt" -> v
      [] OTHER -> NaN

----------------------------------------------------------------------------
(* clean_data: the rejection reasons *)

NoPrison == "INVALID: No Prison sentences found"
NoRace == "INVALID: No valid race values found"
NoGender == "INVALID: No valid gender values found"
NoUnits == "INVALID: No valid commitment term units found"
NoNullFree == "INVALID: No null-free examples found"

ReasonOf(step) ==
    CASE step = "prison" -> NoPrison
      [] step = "race" -> NoRace
      [] step = "gender" -> NoGender
      [] step = "units" -> NoUnits
      [] step = "nulls" -> NoNullFree

\* faulty variant: the emptiness check without its return
CheckEmptyNoReturn(step, d, next) ==
    /\ trail' = Append(trail, [step |-> step, n |-> Len(d)])
    /\ pc' = next
    /\ UNCHANGED result

\* if data.shape[0] == 0: return 'INVALID: ...'
CheckEmpty(step, d, next) ==
    /\ trail' = Append(trail, [step |-> step, n |-> Len(d)])
    /\ IF Len(d) = 0
       THEN /\ pc' = "done"
            /\ result' = [kind |-> "reason", msg |-> ReasonOf(step)]
       ELSE /\ pc' = next
            /\ UNCHANGED result

----------------------------------------------------------------------------
(* clean_data, step 1: exclude non-prison sentences *)

\* faulty variant: the column dropped, the rows not filtered
prison_unfiltered(d) == DropColumns(d, {"SENTENCE_TYPE"})

prison_only(d) ==
    DropColumns(SelectSeq(d, LAMBDA r : r["SENTENCE_TYPE"] = "Prison"),
                {"SENTENCE_TYPE"})

ExcludeNonPrison ==
    /\ pc = "prison"
    /\ data' = prison_only(data)
    /\ before' = data
    /\ last' = "prison"
    /\ CheckEmpty("prison", prison_only(data), "race")
    /\ UNCHANGED <<input, otherVars>>

(* step 2: standardize race category names *)

standard_race_map ==
    [r \in {"Black", "White", "HISPANIC", "White [Hispanic or Latino]",
            "White/Black [Hispanic or Latino]", "ASIAN", "Asian",
            "American Indian", "Unknown", "Biracial"} |->
        CASE r = "Black" -> "Black"
          [] r = "White" -> "White"
          [] r = "HISPANIC" -> "HISPANIC"
          [] r = "White [Hispanic or Latino]" -> "HISPANIC"
          [] r = "White/Black [Hispanic or Latino]" -> "HISPANIC"
          [] r = "ASIAN" -> "Asian"
          [] r = "Asian" -> "Asian"
          [] r = "American Indian" -> "American Indian"
          [] r = "Unknown" -> "Unknown"
          [] r = "Biracial" -> "Black"]

\* faulty variant: a lookup that ignores case for "black"
map_race_nocase(v) ==
    IF v \in DOMAIN standard_race_map THEN standard_race_map[v]
    ELSE IF v = "black" THEN "Black" ELSE NA

\* Series.map(dict): a value that is no key becomes missing
map_race(v) ==
    IF v \in DOMAIN standard_race_map THEN standard_race_map[v] ELSE NA

\* faulty variant: the rows of unknown race kept
standardize_race_unknown(d) ==
    SelectSeq(MapColumn(d, "RACE", map_race), LAMBDA r : ~IsNull(r, "RACE"))

standardize_race(d) ==
    SelectSeq(SelectSeq(MapColumn(d, "RACE", map_race),
                        LAMBDA r : r["RACE"] # "Unknown"),
              LAMBDA r : ~IsNull(r, "RACE"))

StandardizeRace ==
    /\ pc = "race"
    /\ data' = standardize_race(data)
    /\ before' = data
    /\ last' = "race"
    /\ CheckEmpty("race", standardize_race(data), "gender")
    /\ UNCHANGED <<input, otherVars>>

(* step 3: standardize gender categories *)

map_gender(v) == IF v \in {"Male", "Female"} THEN v ELSE "Unknown"

standardize_gender(d) == MapColumn(d, "GENDER", map_gender)

StandardizeGender ==
    /\ pc = "gender"
    /\ data' = standardize_gender(data)
    /\ before' = data
    /\ last' = "gender"
    /\ CheckEmpty("gender", standardize_gender(data), "units")
    /\ UNCHANGED <<input, otherVars>>

----------------------------------------------------------------------------
(* step 4: normalize commitment term to year units *)

commitment_term_units == {"Year(s)", "Months", "Natural Life", "Days"}

term_divisors ==
    [u \in {"Year(s)", "Months", "Days"} |->
        CASE u = "Year(s)" -> 1 [] u = "Months" -> 12 [] u = "Days" -> 365]

\* data['COMMITMENT_UNIT'].map(term_divisors).fillna(1)
divisor_col(u) == IF u \in DOMAIN term_divisors THEN term_divisors[u] ELSE 1

Divide(v, n) == IF v.k = "flt" THEN Flt(v.q \div n) ELSE NaN

normalize_term(d) ==
    LET floats == MapColumn(d, "COMMITMENT_TERM", AsFloat)
        kept == SelectSeq(floats,
                    LAMBDA r : r["COMMITMENT_UNIT"] \in commitment_term_units)
    IN  [i \in 1..Len(kept) |->
            [kept[i] EXCEPT !["COMMITMENT_TERM"] =
                Divide(@, divisor_col(kept[i]["COMMITMENT_UNIT"]))]]

\* astype(float) raises ValueError on the first text that is no number;
\* nothing in clean_data or in predict catches it
NormalizeCommitmentTerm ==
    /\ pc = "units"
    /\ before' = data
    /\ last' = "astype"
    /\ IF \A i \in 1..Len(data) : CanFloat(data[i]["COMMITMENT_TERM"])
       THEN /\ data' = normalize_term(data)
            /\ pc' = "life"
            /\ UNCHANGED result
       ELSE /\ pc' = "done"
            /\ result' = [kind |-> "raise", msg |-> "ValueError"]
            /\ UNCHANGED data
    /\ UNCHANGED <<input, trail, otherVars>>

(* the natural life term: 78 minus the median age of the natural life rows *)

LifeExpectancy == 78

RECURSIVE Insert(_, _)
Insert(s, x) ==
    IF Len(s) = 0 THEN <<x>>
    ELSE IF x <= s[1] THEN <<x>> \o s
    ELSE <<s[1]>> \o Insert(Tail(s), x)

RECURSIVE Sorted(_)
Sorted(s) == IF Len(s) = 0 THEN <<>> ELSE Insert(Sorted(Tail(s)), s[1])

\* faulty variant: the upper middle value instead of the mean of the two middle ones
median_upper(col) ==
    LET present == SelectSeq(col, LAMBDA v : v.k = "num")
        s == Sorted([i \in 1..Len(present) |-> present[i].v])
        n == Len(s)
    IN  IF n = 0 THEN NaN ELSE Flt(s[n \div 2 + 1] * Scale)

\* Series.median(): missing values are skipped; of no value it is missing
median(col) ==
    LET present == SelectSeq(col, LAMBDA v : v.k = "num")
        s == Sorted([i \in 1..Len(present) |-> present[i].v])
        n == Len(s)
    IN  IF n = 0 THEN NaN
        ELSE IF n % 2 = 1 THEN Flt(s[(n + 1) \div 2] * Scale)
        ELSE Flt(((s[n \div 2] + s[n \div 2 + 1]) * Scale) \div 2)

natural_life_years(d) ==
    LET life == SelectSeq(d, LAMBDA r : r["COMMITMENT_UNIT"] = "Natural Life")
        age_when_committed ==
            median([i \in 1..Len(life) |-> life[i]["AGE_AT_INCIDENT"]])
    IN  IF age_when_committed.k = "flt"
        THEN Flt(LifeExpectancy * Scale - age_when_committed.q)
        ELSE NaN

set_natural_life(d) ==
    [i \in 1..Len(d) |->
        IF d[i]["COMMITMENT_UNIT"] = "Natural Life"
        THEN [d[i] EXCEPT !["COMMITMENT_TERM"] = natural_life_years(d)]
        ELSE d[i]]

NaturalLife ==
    /\ pc = "life"
    /\ data' = DropColumns(set_natural_life(data), {"COMMITMENT_UNIT"})
    /\ before' = data
    /\ last' = "life"
    /\ CheckEmpty("units", data, "nulls")
    /\ UNCHANGED <<input, otherVars>>

----------------------------------------------------------------------------
(* step 5: drop variables and examples with nulls *)

nan_cols == {"LENGTH_OF_CASE_in_Days", "INCIDENT_CITY", "LAW_ENFORCEMENT_UNIT"}

HasNull(r) == \E c \in (DOMAIN r) \ {"idx"} : IsNull(r, c)

drop_nulls(d) ==
    SelectSeq(DropColumns(d, nan_cols), LAMBDA r : ~HasNull(r))

DropNulls ==
    /\ pc = "nulls"
    /\ data' = drop_nulls(data)
    /\ before' = data
    /\ last' = "nulls"
    /\ CheckEmpty("nulls", drop_nulls(data), "topn")
    /\ UNCHANGED <<input, otherVars>>

----------------------------------------------------------------------------
(* step 6: reduce cardinality of high cardinality categories *)

top_ns ==
    [name \in {"UPDATED_OFFENSE_CATEGORY", "DISPOSITION_CHARGED_OFFENSE_TITLE",
               "LAW_ENFORCEMENT_AGENCY", "SENTENCE_JUDGE"} |->
        CASE name = "UPDATED_OFFENSE_CATEGORY" -> 25
          [] name = "DISPOSITION_CHARGED_OFFENSE_TITLE" -> 40
          [] name = "LAW_ENFORCEMENT_AGENCY" -> 20
          [] name = "SENTENCE_JUDGE" -> 73]

Values(d, name) == {d[i][name] : i \in 1..Len(d)} \ {NA}

Count(d, name, v) == Cardinality({i \in 1..Len(d) : d[i][name] = v})

\* The place of value v in the order prio, 0 when it has none
Place(prio, v) ==
    IF \E i \in 1..Len(prio) : prio[i] = v
    THEN CHOOSE i \in 1..Len(prio) : prio[i] = v
    ELSE 0

\* value a comes before value b in data[name].value_counts(): the more
\* frequent first.  pandas does not specify the order of values of equal
\* frequency; a run has one such order, prio.
Precedes(d, name, prio, a, b) ==
    \/ Count(d, name, a) > Count(d, name, b)
    \/ /\ Count(d, name, a) = Count(d, name, b)
       /\ Place(prio, a) < Place(prio, b)

\* faulty variant: value_counts()[n-1:]: one value too many is consolidated
top_values_short(d, name, n, prio) ==
    {v \in Values(d, name) :
        Cardinality({o \in Values(d, name) : Precedes(d, name, prio, o, v)}) < n - 1}

\* data[name].value_counts()[:n].index: the n most frequent values
top_values(d, name, n, prio) ==
    {v \in Values(d, name) :
        Cardinality({o \in Values(d, name) : Precedes(d, name, prio, o, v)}) < n}

\* combine_cats = value_counts()[n:].index; data.loc[isin, name] = 'misc_other'
consolidate(d, name, keep) ==
    [i \in 1..Len(d) |->
        IF d[i][name] \in Values(d, name) \ keep
        THEN [d[i] EXCEPT ![name] = "misc_other"]
        ELSE d[i]]

top_n(d, name, n, prio) == consolidate(d, name, top_values(d, name, n, prio))

reduce_cardinality(d, prio) ==
    LET Step(x, name) == top_n(x, name, top_ns[name], prio)
    IN  Step(Step(Step(Step(d, "UPDATED_OFFENSE_CATEGORY"),
                       "DISPOSITION_CHARGED_OFFENSE_TITLE"),
                  "LAW_ENFORCEMENT_AGENCY"),
             "SENTENCE_JUDGE")

ReduceCardinality ==
    /\ pc = "topn"
    /\ data' = reduce_cardinality(data, ties)
    /\ before' = data
    /\ last' = "topn"
    /\ pc' = "clip"
    /\ UNCHANGED <<input, trail, result, otherVars>>

----------------------------------------------------------------------------
(* step 7: clip range of COMMITMENT_TERM *)

ClipUpper == 110

\* faulty variant: clip(lower=110)
clip_lower(v) ==
    IF v.k = "flt" THEN Flt(IF v.q >= ClipUpper * Scale THEN v.q ELSE ClipUpper * Scale)
    ELSE v

clip(v) == IF v.k = "flt" THEN Flt(Min(v.q, ClipUpper * Scale)) ELSE v

clip_term(d) == MapColumn(d, "COMMITMENT_TERM", clip)

ClipCommitmentTerm ==
    /\ pc = "clip"
    /\ data' = clip_term(data)
    /\ before' = data
    /\ last' = "clip"
    /\ pc' = "done"
    /\ result' = [kind |-> "data", msg |-> ""]
    /\ UNCHANGED <<input, trail, otherVars>>

clean_data ==
    \/ ExcludeNonPrison
    \/ StandardizeRace
    \/ StandardizeGender
    \/ NormalizeCommitmentTerm
    \/ NaturalLife
    \/ DropNulls
    \/ ReduceCardinality
    \/ ClipCommitmentTerm

----------------------------------------------------------------------------
(* Input batches *)

MaxRows == 2

Case ==
    [SENTENCE_TYPE |-> "Prison", RACE |-> "Black", GENDER |-> "Male",
     COMMITMENT_TERM |-> Num(24), COMMITMENT_UNIT |-> "Months",
     AGE_AT_INCIDENT |-> Num(22), CHARGE_COUNT |-> Num(1),
     UPDATED_OFFENSE_CATEGORY |-> "PROMIS Conversion",
     DISPOSITION_CHARGED_OFFENSE_TITLE |-> "ARMED ROBBERY",
     LAW_ENFORCEMENT_AGENCY |-> "PROMIS Data Conversion",
     SENTENCE_JUDGE |-> "James L Rhodes",
     CHARGE_DISPOSITION |-> "Plea Of Guilty",
     DISPOSITION_CHARGED_CLASS |-> "X",
     SENTENCE_PHASE |-> "Original Sentencing", PRIMARY_CHARGE_FLAG |-> TRUE,
     LENGTH_OF_CASE_in_Days |-> Num(1307), INCIDENT_CITY |-> NA,
     LAW_ENFORCEMENT_UNIT |-> NA]

With(r, col, v) == [r EXCEPT ![col] = v]

SentenceTypes == {"Prison", "Jail"}

RawRaces == (DOMAIN standard_race_map) \cup {"black", "Other", NA}

RawGenders == {"Male", "Female", "Unknown Gender", NA}

RawUnits == {"Year(s)", "Months", "Days", "Natural Life", "Weeks"}

RawTerms ==
    {Num(24), Num(-12), Num(50000), NaN, Txt(<<"2", "4">>), Txt(<<"a">>)}

\* the terms tried under every unit
RawNumbers == {Num(24), Num(50000), Txt(<<"2", "4">>)}

RawAges == {Num(20), Num(24), NaN}

\* Rows that vary what one step of the cleaner reads, over every value of it,
\* and rows that fail an early step while a later step would fail too.
BatchRows ==
    {With(Case, "RACE", r) : r \in RawRaces}
    \cup {With(With(Case, "SENTENCE_TYPE", st), "RACE", r) :
            st \in SentenceTypes, r \in {"Black", "Unknown", "Other"}}
    \cup {With(Case, "GENDER", g) : g \in RawGenders}
    \cup {With(With(Case, "COMMITMENT_TERM", t), "COMMITMENT_UNIT", u) :
            t \in RawNumbers, u \in RawUnits}
    \cup {With(With(Case, "COMMITMENT_TERM", t), "COMMITMENT_UNIT", u) :
            t \in RawTerms \ RawNumbers, u \in {"Months", "Natural Life", "Weeks"}}
    \cup {With(With(Case, "COMMITMENT_UNIT", "Natural Life"),
               "AGE_AT_INCIDENT", a) : a \in RawAges}
    \cup {With(Case, "SENTENCE_JUDGE", NA), With(Case, "CHARGE_COUNT", NaN)}
    \cup {With(With(With(Case, "SENTENCE_TYPE", "Jail"),
                    "COMMITMENT_TERM", Txt(<<"a">>)), "RACE", "Unknown"),
          With(With(Case, "RACE", "Unknown"), "COMMITMENT_TERM", Txt(<<"a">>)),
          With(With(Case, "RACE", "Other"), "COMMITMENT_UNIT", "Weeks"),
          With(With(Case, "COMMITMENT_UNIT", "Weeks"), "SENTENCE_JUDGE", NA)}

\* pd.DataFrame(rows): the rows under the default index 0, 1, ...
DataFrame(rows) ==
    [i \in 1..Len(rows) |->
        [c \in (DOMAIN rows[i]) \cup {"idx"} |->
            IF c = "idx" THEN i - 1 ELSE rows[i][c]]]

Batches(rows, n) == UNION {[1..k -> rows] : k \in 0..n}

Start(batch) ==
    /\ pc = "prison"
    /\ input = DataFrame(batch)
    /\ data = DataFrame(batch)
    /\ before = DataFrame(batch)
    /\ last = "call"
    /\ trail = <<>>
    /\ result = [kind |-> "none", msg |-> ""]

NoRequest == raw = <<>> /\ response = [kind |-> "none"]

NoEstimate ==
    model = <<>> /\ counterfactual = <<>> /\ est = <<>> /\ legacy = <<>>

NoScore ==
    new_discrepancy = <<>> /\ test_discrepancies = <<>> /\ percentile = <<>>

CaseTies ==
    <<"PROMIS Conversion", "ARMED ROBBERY", "PROMIS Data Conversion",
      "James L Rhodes", "misc_other">>

NoTopN == ties = CaseTies /\ limit = 0 /\ once = <<>> /\ twice = <<>>

Init ==
    /\ \E batch \in Batches(BatchRows, MaxRows) : Start(batch)
    /\ NoRequest /\ NoEstimate /\ NoScore /\ NoTopN

Next == clean_data

Spec == Init /\ [][Next]_vars

----------------------------------------------------------------------------
(* Batches for the natural life rule: the unit, the age and the raw term   *)
(* vary, and one natural life row is dropped by the race step.             *)

MaxLifeRows == 3

LifeRows ==
    {With(With(With(Case, "COMMITMENT_UNIT", "Natural Life"), "AGE_AT_INCIDENT", a),
          "COMMITMENT_TERM", t) :
        a \in {Num(20), Num(22), Num(24), NaN}, t \in {Num(24), Num(5)}}
    \cup {With(With(With(Case, "COMMITMENT_UNIT", "Year(s)"), "AGE_AT_INCIDENT", a),
                "COMMITMENT_TERM", t) :
            a \in {Num(22), NaN}, t \in {Num(24), Num(5)}}
    \cup {With(With(With(Case, "COMMITMENT_UNIT", "Natural Life"),
                    "AGE_AT_INCIDENT", Num(70)), "RACE", "Unknown")}

InitLife ==
    /\ \E batch \in Batches(LifeRows, MaxLifeRows) : Start(batch)
    /\ NoRequest /\ NoEstimate /\ NoScore /\ NoTopN

SpecLife == InitLife /\ [][Next]_vars

----------------------------------------------------------------------------
(* What the claims speak of *)

\* the caller's row behind a row of data
InputRow(r) == input[r["idx"] + 1]

\* the number a raw COMMITMENT_TERM stands for
RawNumber(v) == IF v.k = "str" THEN FloatOfText(v.s) ELSE v.v

StepOrder == <<"prison", "race", "gender", "units", "nulls">>

ValidRaces ==
    {"Black", "White", "HISPANIC", "White [Hispanic or Latino]",
     "White/Black [Hispanic or Latino]", "ASIAN", "Asian", "American Indian",
     "Biracial"}

\* the input rows (by position) a step leaves, stated on the input alone
Kept(step) ==
    LET prison == {i \in 1..Len(input) : input[i]["SENTENCE_TYPE"] = "Prison"}
        race == {i \in prison : input[i]["RACE"] \in ValidRaces}
        units == {i \in race :
                    input[i]["COMMITMENT_UNIT"] \in
                        {"Year(s)", "Months", "Natural Life", "Days"}}
        lifeAge == \E j \in units :
                      /\ input[j]["COMMITMENT_UNIT"] = "Natural Life"
                      /\ input[j]["AGE_AT_INCIDENT"] # NaN
        nulls == {i \in units :
                    /\ IF input[i]["COMMITMENT_UNIT"] = "Natural Life"
                       THEN lifeAge
                       ELSE input[i]["COMMITMENT_TERM"] # NaN
                    /\ input[i]["AGE_AT_INCIDENT"] # NaN
                    /\ input[i]["CHARGE_COUNT"] # NaN
                    /\ \A c \in {"UPDATED_OFFENSE_CATEGORY",
                                 "DISPOSITION_CHARGED_OFFENSE_TITLE",
                                 "LAW_ENFORCEMENT_AGENCY", "SENTENCE_JUDGE"} :
                          input[i][c] # NA}
    IN  CASE step = "prison" -> prison
          [] step = "race" -> race
          [] step = "gender" -> race
          [] step = "units" -> units
          [] step = "nulls" -> nulls

\* the positions in StepOrder of the steps that leave no input row
Emptied == {k \in 1..5 : Kept(StepOrder[k]) = {}}

\* C1: clean_data stops at the first step that leaves no row and returns
\* that step's reason, running no later step: whenever an emptiness check
\* finds no row it is the last one run and the call has returned its reason;
\* a returned reason is the reason of the earliest step, in the order
\* Prison, race, gender, commitment unit, null drop, that leaves no input
\* row; and a cleaned batch is returned only if no step leaves none.
C1_EarliestEmptyStepDecides ==
    /\ \A i \in 1..Len(trail) :
          /\ trail[i].step = StepOrder[i]
          /\ trail[i].n = Cardinality(Kept(StepOrder[i]))
          /\ trail[i].n = 0 =>
                /\ i = Len(trail)
                /\ pc = "done"
                /\ result = [kind |-> "reason", msg |-> ReasonOf(StepOrder[i])]
    /\ result.kind = "reason" =>
          /\ Emptied # {}
          /\ \E k \in Emptied :
                /\ \A j \in Emptied : k <= j
                /\ Len(trail) = k
                /\ result.msg =
                      <<"INVALID: No Prison sentences found",
                        "INVALID: No valid race values found",
                        "INVALID: No valid gender values found",
                        "INVALID: No valid commitment term units found",
                        "INVALID: No null-free examples found">>[k]
    /\ result.kind = "data" =>
          /\ Emptied = {}
          /\ Len(trail) = 5
          /\ {data[i]["idx"] + 1 : i \in 1..Len(data)} = Kept("nulls")

\* C1 witness: the unit filter removed the last rows of a two-row batch one
\* of whose rows the null drop would have removed too, and the call
\* returned the unit reason.
C1_Witness ==
    /\ pc = "done"
    /\ Len(input) = 2
    /\ result = [kind |-> "reason", msg |-> NoUnits]
    /\ last = "life"
    /\ \E i \in 1..2 : input[i]["SENTENCE_JUDGE"] = NA

\* C3: a batch none of whose records has SENTENCE_TYPE "Prison" is rejected
\* with the Prison reason, whatever its other fields hold.
C3_NonPrisonRejected ==
    (pc = "done" /\ \A i \in 1..Len(input) : input[i]["SENTENCE_TYPE"] # "Prison")
        => /\ result = [kind |-> "reason",
                        msg |-> "INVALID: No Prison sentences found"]
           /\ last = "prison"

\* C3 witness: a non-Prison record whose race is Unknown and whose term is
\* no number was rejected at the first step.
C3_Witness ==
    /\ pc = "done"
    /\ Len(input) = 1
    /\ input[1]["SENTENCE_TYPE"] = "Jail"
    /\ input[1]["RACE"] = "Unknown"
    /\ input[1]["COMMITMENT_TERM"] = Txt(<<"a">>)
    /\ result.msg = NoPrison

ExpectedRace(r) ==
    CASE r \in {"Black", "Biracial"} -> "Black"
      [] r = "White" -> "White"
      [] r \in {"HISPANIC", "White [Hispanic or Latino]",
                "White/Black [Hispanic or Latino]"} -> "HISPANIC"
      [] r \in {"ASIAN", "Asian"} -> "Asian"
      [] r = "American Indian" -> "American Indian"

\* C4: a single Prison record whose RACE is "Unknown" or no key of the
\* normalization table (case matters) is rejected with the race reason; one
\* whose RACE is any other key passes the race step with RACE replaced by
\* the table's value.
C4_RaceStep ==
    (Len(input) = 1 /\ input[1]["SENTENCE_TYPE"] = "Prison") =>
        IF input[1]["RACE"] \in ValidRaces
        THEN /\ last = "race" =>
                  /\ pc = "gender"
                  /\ result.kind = "none"
                  /\ Len(data) = 1
                  /\ data[1]["RACE"] = ExpectedRace(input[1]["RACE"])
             /\ result.kind = "reason" => result.msg # NoRace
        ELSE /\ last = "race" => pc = "done"
             /\ pc = "done" =>
                  /\ result = [kind |-> "reason",
                               msg |-> "INVALID: No valid race values found"]
                  /\ last = "race"

\* C4 witness: Biracial passed the race step as Black.
C4_Witness ==
    /\ Len(input) = 1
    /\ input[1]["RACE"] = "Biracial"
    /\ last = "race"
    /\ pc = "gender"
    /\ data[1]["RACE"] = "Black"

\* C4 witness of the rejection: a lower-case "black" was rejected.
C4_WitnessRejected ==
    /\ Len(input) = 1
    /\ input[1]["RACE"] = "black"
    /\ pc = "done"
    /\ result.msg = NoRace

TimeUnits == {"Year(s)", "Months", "Days"}

ExpectedDivisor(u) ==
    CASE u = "Year(s)" -> 1 [] u = "Months" -> 12 [] u = "Days" -> 365

\* C5: every row of a cleaned batch has COMMITMENT_TERM <= 110; for a row
\* whose unit is Year(s), Months or Days the value before the final clip is
\* raw_term / divisor, and the value returned is min(raw_term / divisor, 110).
C5_TermInYearsClipped ==
    /\ pc = "clip" =>
          \A i \in 1..Len(data) :
              LET in == InputRow(data[i])
              IN  in["COMMITMENT_UNIT"] \in TimeUnits =>
                    /\ data[i]["COMMITMENT_TERM"].k = "flt"
                    /\ data[i]["COMMITMENT_TERM"].q
                            * ExpectedDivisor(in["COMMITMENT_UNIT"])
                          = RawNumber(in["COMMITMENT_TERM"]) * Scale
    /\ result.kind = "data" =>
          \A i \in 1..Len(data) :
              LET in == InputRow(data[i])
                  term == RawNumber(in["COMMITMENT_TERM"]) * Scale
                  by == ExpectedDivisor(in["COMMITMENT_UNIT"])
              IN  /\ data[i]["COMMITMENT_TERM"].k = "flt"
                  /\ data[i]["COMMITMENT_TERM"].q <= 110 * Scale
                  /\ in["COMMITMENT_UNIT"] \in TimeUnits =>
                        IF term <= 110 * Scale * by
                        THEN data[i]["COMMITMENT_TERM"].q * by = term
                        ELSE data[i]["COMMITMENT_TERM"].q = 110 * Scale

\* C5 witness: 50000 days, about 137 years, came out as 110, beside a row of
\* -12 months that came out as -1.
C5_Witness ==
    /\ result.kind = "data"
    /\ Len(data) = 2
    /\ InputRow(data[1])["COMMITMENT_UNIT"] = "Days"
    /\ InputRow(data[1])["COMMITMENT_TERM"] = Num(50000)
    /\ data[1]["COMMITMENT_TERM"] = Flt(110 * Scale)
    /\ InputRow(data[2])["COMMITMENT_UNIT"] = "Months"
    /\ data[2]["COMMITMENT_TERM"] = Flt(-1 * Scale)

\* the ages, by position in d, of d's natural life rows that have one
LifeAges(d) ==
    [i \in {j \in 1..Len(d) :
              /\ d[j]["COMMITMENT_UNIT"] = "Natural Life"
              /\ d[j]["AGE_AT_INCIDENT"] # NaN} |->
        d[i]["AGE_AT_INCIDENT"].v * Scale]

\* f[a] is the k-th smallest value of f, counting repetitions
IsKth(a, k, f) ==
    /\ Cardinality({j \in DOMAIN f : f[j] < f[a]}) < k
    /\ k <= Cardinality({j \in DOMAIN f : f[j] <= f[a]})

\* m is the median of the n values of f: the middle one for odd n, the mean
\* of the two middle ones for even n
IsMedian(m, f) ==
    LET n == Cardinality(DOMAIN f)
    IN  \E a \in DOMAIN f : \E b \in DOMAIN f :
            /\ IsKth(a, (n + 1) \div 2, f)
            /\ IsKth(b, n \div 2 + 1, f)
            /\ 2 * m = f[a] + f[b]

\* C6: the natural life overwrite gives every "Natural Life" row the same
\* COMMITMENT_TERM, 78 minus the median AGE_AT_INCIDENT of the natural life
\* rows present at that step, whatever their raw terms; it leaves every
\* other row as it was, and with no natural life row it changes nothing.
C6_NaturalLifeTerm ==
    last = "life" =>
        /\ Len(data) = Len(before)
        /\ \A i \in 1..Len(data) :
              /\ \A c \in (DOMAIN data[i]) \ {"COMMITMENT_TERM"} :
                    data[i][c] = before[i][c]
              /\ IF before[i]["COMMITMENT_UNIT"] = "Natural Life"
                 THEN IF DOMAIN LifeAges(before) = {}
                      THEN data[i]["COMMITMENT_TERM"] = NaN
                      ELSE /\ data[i]["COMMITMENT_TERM"].k = "flt"
                           /\ IsMedian(78 * Scale - data[i]["COMMITMENT_TERM"].q,
                                       LifeAges(before))
                 ELSE data[i]["COMMITMENT_TERM"] = before[i]["COMMITMENT_TERM"]

\* C6 witness: natural life rows of ages 20, 22 and 24 and raw terms that
\* differ all got 78 - 22 = 56 years.
C6_Witness ==
    /\ last = "life"
    /\ Len(data) = 3
    /\ \A i \in 1..3 : before[i]["COMMITMENT_UNIT"] = "Natural Life"
    /\ {before[i]["AGE_AT_INCIDENT"] : i \in 1..3} = {Num(20), Num(22), Num(24)}
    /\ before[1]["COMMITMENT_TERM"] # before[2]["COMMITMENT_TERM"]
    /\ \A i \in 1..3 : data[i]["COMMITMENT_TERM"] = Flt(56 * Scale)

\* C6 witness of the frame: a batch with a natural life row and a row in
\* years went through the overwrite.
C6_WitnessMixed ==
    /\ last = "life"
    /\ Len(data) = 2
    /\ before[1]["COMMITMENT_UNIT"] = "Natural Life"
    /\ before[2]["COMMITMENT_UNIT"] = "Year(s)"
    /\ data[2]["COMMITMENT_TERM"] = Flt(5 * Scale)

----------------------------------------------------------------------------
(* make_counterfactual *)

race_counterfactual_map ==
    [r \in {"Black", "White", "HISPANIC", "Asian", "American Indian"} |->
        IF r = "White" THEN "Black" ELSE "White"]

\* Series.map(dict): a value that is no key becomes missing
map_counterfactual(v) ==
    IF v \in DOMAIN race_counterfactual_map THEN race_counterfactual_map[v] ELSE NA

\* faulty variant: no copy: the RACE column is assigned on the caller's frame
make_counterfactual_inplace(d) ==
    [out |-> MapColumn(d, "RACE", map_counterfactual),
     arg |-> MapColumn(d, "RACE", map_counterfactual)]

\* data.copy() with RACE mapped: out is the frame returned, arg the caller's
\* frame once the call has returned
make_counterfactual(d) ==
    [out |-> MapColumn(d, "RACE", map_counterfactual), arg |-> d]

----------------------------------------------------------------------------
(* The model: an opaque predictor of sentence length, here any of a few     *)
(* functions of a row's RACE and CHARGE_COUNT.                              *)

CleanRaces == {"Black", "White", "HISPANIC", "Asian", "American Indian"}

PredictorRaces == CleanRaces \cup {"Unknown", "Biracial", NA}

Predictor(black, white, hispanic, asian, indian, other, charge) ==
    [race |-> [r \in PredictorRaces |->
                  CASE r = "Black" -> black
                    [] r = "White" -> white
                    [] r = "HISPANIC" -> hispanic
                    [] r = "Asian" -> asian
                    [] r = "American Indian" -> indian
                    [] OTHER -> other],
     charge |-> charge]

Models ==
    {Predictor(9, 6, 8, 5, 7, 4, 2),
     Predictor(5, 5, 5, 5, 5, 5, 0),
     Predictor(3, 9, 4, 6, 2, 7, 1)}

\* model.predict(data): one prediction per row
model_predict(m, d) ==
    [i \in 1..Len(d) |-> m.race[d[i]["RACE"]] + m.charge * d[i]["CHARGE_COUNT"].v]

----------------------------------------------------------------------------
(* estimate_discrepancy *)

\* faulty variant: the extended variant with the legacy sign
estimate_discrepancy_swapped(m, d, return_pred) ==
    LET pred == model_predict(m, d)
        other == model_predict(m, make_counterfactual(d).out)
        diff == [i \in 1..Len(d) |-> other[i] - pred[i]]
    IN  IF return_pred THEN [diff |-> diff, pred |-> pred] ELSE [diff |-> diff]

\* notebooks/predict.py: actual minus counterfactual
estimate_discrepancy(m, d, return_pred) ==
    LET pred == model_predict(m, d)
        other == model_predict(m, make_counterfactual(d).out)
        diff == [i \in 1..Len(d) |-> pred[i] - other[i]]
    IN  IF return_pred THEN [diff |-> diff, pred |-> pred] ELSE [diff |-> diff]

\* server/routes/predict.py: counterfactual minus actual
estimate_discrepancy_legacy(m, d) ==
    LET pred == model_predict(m, d)
        other == model_predict(m, make_counterfactual(d).out)
    IN  [diff |-> [i \in 1..Len(d) |-> other[i] - pred[i]]]

----------------------------------------------------------------------------
(* The counterfactual generator and the two estimators on cleaned batches *)

MaxEstimateRows == 2

CleanCase ==
    [c \in (DOMAIN Case) \ ({"SENTENCE_TYPE", "COMMITMENT_UNIT"} \cup nan_cols) |->
        IF c = "COMMITMENT_TERM" THEN Flt(2 * Scale) ELSE Case[c]]

EstimateRows ==
    {With(With(CleanCase, "RACE", r), "CHARGE_COUNT", Num(c)) :
        r \in PredictorRaces, c \in {1, 2}}

MakeCounterfactual ==
    /\ pc = "counterfactual"
    /\ counterfactual' = make_counterfactual(data).out
    /\ data' = make_counterfactual(data).arg
    /\ pc' = "extended"
    /\ UNCHANGED <<input, before, last, trail, result, model, est, legacy>>
    /\ UNCHANGED <<requestVars, scoreVars, topVars>>

EstimateDiscrepancy ==
    /\ pc = "extended"
    /\ \E return_pred \in BOOLEAN :
          est' = estimate_discrepancy(model, data, return_pred)
    /\ pc' = "legacy"
    /\ UNCHANGED <<input, data, before, last, trail, result>>
    /\ UNCHANGED <<model, counterfactual, legacy>>
    /\ UNCHANGED <<requestVars, scoreVars, topVars>>

EstimateDiscrepancyLegacy ==
    /\ pc = "legacy"
    /\ legacy' = estimate_discrepancy_legacy(model, data)
    /\ pc' = "estimated"
    /\ UNCHANGED <<input, data, before, last, trail, result>>
    /\ UNCHANGED <<model, counterfactual, est>>
    /\ UNCHANGED <<requestVars, scoreVars, topVars>>

InitEstimate ==
    /\ \E batch \in Batches(EstimateRows, MaxEstimateRows) :
          /\ input = DataFrame(batch)
          /\ data = DataFrame(batch)
          /\ before = DataFrame(batch)
    /\ pc = "counterfactual"
    /\ last = "call"
    /\ trail = <<>>
    /\ result = [kind |-> "none", msg |-> ""]
    /\ model \in Models
    /\ counterfactual = <<>> /\ est = <<>> /\ legacy = <<>>
    /\ NoRequest /\ NoScore /\ NoTopN

NextEstimate ==
    \/ MakeCounterfactual
    \/ EstimateDiscrepancy
    \/ EstimateDiscrepancyLegacy

SpecEstimate == InitEstimate /\ [][NextEstimate]_vars

ExpectedCounterfactual(r) ==
    CASE r = "White" -> "Black"
      [] r \in {"Black", "HISPANIC", "Asian", "American Indian"} -> "White"
      [] OTHER -> NA

\* C8: the extended estimate_discrepancy returns predict(row) minus
\* predict(counterfactual row), the legacy one the reverse, so for one model
\* and one batch the two are exact negations; with return_pred the extended
\* variant also returns predict(row).
C8_SignConventions ==
    pc = "estimated" =>
        /\ Len(est.diff) = Len(input)
        /\ Len(legacy.diff) = Len(input)
        /\ "pred" \in DOMAIN est => Len(est.pred) = Len(input)
        /\ \A i \in 1..Len(input) :
              LET actual == model.race[input[i]["RACE"]]
                              + model.charge * input[i]["CHARGE_COUNT"].v
                  switched == model.race[ExpectedCounterfactual(input[i]["RACE"])]
                                + model.charge * input[i]["CHARGE_COUNT"].v
              IN  /\ est.diff[i] = actual - switched
                  /\ legacy.diff[i] = switched - actual
                  /\ est.diff[i] + legacy.diff[i] = 0
                  /\ "pred" \in DOMAIN est => est.pred[i] = actual

\* C8 witness: a Black row under a model that predicts 9 + 2 for it and
\* 6 + 2 for its counterfactual: +3 extended, -3 legacy, prediction 11.
C8_Witness ==
    /\ pc = "estimated"
    /\ Len(input) = 1
    /\ input[1]["RACE"] = "Black"
    /\ est = [diff |-> <<3>>, pred |-> <<11>>]
    /\ legacy = [diff |-> <<-3>>]

\* C10: make_counterfactual returns a batch whose every row has the input
\* row's RACE switched by {Black->White, White->Black, HISPANIC->White,
\* Asian->White, American Indian->White}, missing for any other value, and
\* every other field as in the input; the input batch is left as it was.
\* Switching twice gives back Black and White only: HISPANIC, Asian and
\* American Indian come back as Black.
C10_CounterfactualFrame ==
    pc \in {"extended", "legacy", "estimated"} =>
        /\ data = input
        /\ Len(counterfactual) = Len(input)
        /\ \A i \in 1..Len(input) :
              /\ DOMAIN counterfactual[i] = DOMAIN input[i]
              /\ \A c \in (DOMAIN input[i]) \ {"RACE"} :
                    counterfactual[i][c] = input[i][c]
              /\ counterfactual[i]["RACE"] =
                    ExpectedCounterfactual(input[i]["RACE"])
              /\ LET back == make_counterfactual(counterfactual).out[i]["RACE"]
                 IN  /\ input[i]["RACE"] \in {"Black", "White"} =>
                          back = input[i]["RACE"]
                     /\ input[i]["RACE"] \in {"HISPANIC", "Asian", "American Indian"} =>
                          back = "Black"

\* C10 witness: a HISPANIC row and a Biracial row were switched to White and
\* to a missing race.
C10_Witness ==
    /\ pc = "extended"
    /\ Len(input) = 2
    /\ input[1]["RACE"] = "HISPANIC"
    /\ counterfactual[1]["RACE"] = "White"
    /\ input[2]["RACE"] = "Biracial"
    /\ counterfactual[2]["RACE"] = NA
    /\ data = input

----------------------------------------------------------------------------
(* discrepancy_percentile.  A percentage discrepancy is a fraction n/d with *)
(* d > 0; what the function returns is a fraction too, or NaN.              *)

Frac(n, d) == [n |-> n, d |-> d]

\* np.abs
AbsFrac(x) == Frac(Abs(x.n), x.d)

\* x > y
Greater(x, y) == x.n * y.d > y.n * x.d

RECURSIVE Sum(_)
Sum(s) == IF Len(s) = 0 THEN 0 ELSE s[1] + Sum(Tail(s))

\* faulty variant: the reference values compared as they are, not by magnitude
discrepancy_percentile_signed(new, tests) ==
    [i \in 1..Len(new) |->
        IF Len(tests) = 0 THEN NaN
        ELSE Frac(100 * Sum([j \in 1..Len(tests) |->
                                IF Greater(AbsFrac(new[i]), tests[j]) THEN 1 ELSE 0]),
                  Len(tests))]

\* mask = |new|[:, None] > |tests|[None, :]; (mask.sum(axis=1) / n) * 100.
\* With an empty list n is 0 and numpy's 0 / 0 is nan.
discrepancy_percentile(new, tests) ==
    LET test_abs == [j \in 1..Len(tests) |-> AbsFrac(tests[j])]
        new_abs == [i \in 1..Len(new) |-> AbsFrac(new[i])]
        n == Len(test_abs)
        mask == [i \in 1..Len(new_abs) |->
                    [j \in 1..n |-> IF Greater(new_abs[i], test_abs[j]) THEN 1 ELSE 0]]
    IN  [i \in 1..Len(new_abs) |->
            IF n = 0 THEN NaN ELSE Frac(100 * Sum(mask[i]), n)]

MaxTests == 4
MaxNew == 2

\* percentage discrepancies, in hundredths
TestValues == {Frac(n, 100) : n \in {-30, 10, 20, 30, 40}}
NewValues == {Frac(n, 100) : n \in {25, -30, 0}}

DiscrepancyPercentile ==
    /\ pc = "score"
    /\ percentile' = discrepancy_percentile(new_discrepancy, test_discrepancies)
    /\ pc' = "scored"
    /\ UNCHANGED <<input, data, before, last, trail, result>>
    /\ UNCHANGED <<new_discrepancy, test_discrepancies>>
    /\ UNCHANGED <<requestVars, estimateVars, topVars>>

InitPercentile ==
    /\ pc = "score"
    /\ input = <<>> /\ data = <<>> /\ before = <<>>
    /\ last = "call"
    /\ trail = <<>>
    /\ result = [kind |-> "none", msg |-> ""]
    /\ test_discrepancies \in UNION {[1..k -> TestValues] : k \in 0..MaxTests}
    /\ new_discrepancy \in UNION {[1..k -> NewValues] : k \in 1..MaxNew}
    /\ percentile = <<>>
    /\ NoRequest /\ NoEstimate /\ NoTopN

NextPercentile == DiscrepancyPercentile

SpecPercentile == InitPercentile /\ [][NextPercentile]_vars

\* C7: for a non-empty reference list R, discrepancy_percentile returns one
\* severity per new discrepancy d, in input order, equal to
\* 100 * |{r in R : |r| < |d|}| / |R|: both sides by absolute value, equal
\* magnitudes not counted, and every severity between 0 and 100.
C7_PercentileRank ==
    (pc = "scored" /\ Len(test_discrepancies) > 0) =>
        /\ Len(percentile) = Len(new_discrepancy)
        /\ \A i \in 1..Len(new_discrepancy) :
              LET smaller ==
                    {j \in 1..Len(test_discrepancies) :
                        Abs(test_discrepancies[j].n) * new_discrepancy[i].d
                          < Abs(new_discrepancy[i].n) * test_discrepancies[j].d}
              IN  /\ percentile[i] # NaN
                  /\ percentile[i].d > 0
                  /\ percentile[i].n * Len(test_discrepancies)
                        = 100 * Cardinality(smaller) * percentile[i].d
                  /\ 0 <= percentile[i].n
                  /\ percentile[i].n <= 100 * percentile[i].d

\* C7 witness: reference [0.1, 0.2, 0.3, 0.4] and 0.25 gave 50.
C7_Witness ==
    /\ pc = "scored"
    /\ test_discrepancies = <<Frac(10, 100), Frac(20, 100), Frac(30, 100), Frac(40, 100)>>
    /\ new_discrepancy = <<Frac(25, 100)>>
    /\ Len(percentile) = 1
    /\ percentile[1].n = 50 * percentile[1].d

----------------------------------------------------------------------------
(* The top-n consolidation of one column, applied to a batch and then to    *)
(* its own result.                                                          *)

MaxTopRows == 3
MaxLimit == 2

Categories == {"A", "B", "C", "misc_other"}

ConsolidateOnce ==
    /\ pc = "top"
    /\ once' = top_n(data, "SENTENCE_JUDGE", limit, ties)
    /\ pc' = "again"
    /\ UNCHANGED <<input, data, before, last, trail, result, ties, limit, twice>>
    /\ UNCHANGED <<requestVars, estimateVars, scoreVars>>

ConsolidateAgain ==
    /\ pc = "again"
    /\ twice' = top_n(once, "SENTENCE_JUDGE", limit, ties)
    /\ pc' = "reduced"
    /\ UNCHANGED <<input, data, before, last, trail, result, ties, limit, once>>
    /\ UNCHANGED <<requestVars, estimateVars, scoreVars>>

InitTopN ==
    /\ pc = "top"
    /\ \E batch \in UNION {[1..k -> {[SENTENCE_JUDGE |-> v] : v \in Categories}] :
                            k \in 1..MaxTopRows} :
          /\ input = DataFrame(batch)
          /\ data = DataFrame(batch)
          /\ before = DataFrame(batch)
    /\ last = "call"
    /\ trail = <<>>
    /\ result = [kind |-> "none", msg |-> ""]
    /\ limit \in 1..MaxLimit
    /\ ties \in {p \in [1..Cardinality(Categories) -> Categories] :
                    Range(p) = Categories}
    /\ once = <<>> /\ twice = <<>>
    /\ NoRequest /\ NoEstimate /\ NoScore

NextTopN ==
    \/ ConsolidateOnce
    \/ ConsolidateAgain

SpecTopN == InitTopN /\ [][NextTopN]_vars

\* C9 as stated: consolidating an already consolidated batch yields the
\* same batch, for every batch and every limit.
C9_Idempotent == pc = "reduced" => twice = once

\* "misc_other" occurs in d and strictly less often than every other value
MiscOtherRarest(d) ==
    /\ "misc_other" \in Values(d, "SENTENCE_JUDGE")
    /\ \A v \in Values(d, "SENTENCE_JUDGE") \ {"misc_other"} :
          Count(d, "SENTENCE_JUDGE", "misc_other") < Count(d, "SENTENCE_JUDGE", v)

\* C9 as amended: consolidating an already consolidated batch yields the
\* same batch when that batch holds at most N distinct values of the field
\* ("misc_other" counted), or when "misc_other" is strictly its least
\* frequent value; otherwise the second pass may also fold a kept value.
C9_IdempotentWhenMiscOtherLast ==
    (pc = "reduced"
        /\ \/ Cardinality(Values(once, "SENTENCE_JUDGE")) <= limit
           \/ MiscOtherRarest(once))
        => twice = once

\* C9 witness: the first pass folded a value into "misc_other", leaving more
\* than N distinct values with "misc_other" the rarest, and the second pass
\* changed nothing.
C9_Witness ==
    /\ pc = "reduced"
    /\ once # data
    /\ Cardinality(Values(once, "SENTENCE_JUDGE")) > limit
    /\ MiscOtherRarest(once)
    /\ twice = once

----------------------------------------------------------------------------
(* predict(): the request, its validation against PREDICT_SCHEMA, and the   *)
(* response.  A JSON value is a tagged record; the text of a                *)
(* COMMITMENT_TERM is held as its sequence of characters.                   *)

JStr(x) == [t |-> "str", s |-> x]
JText(c) == [t |-> "str", c |-> c]
JInt(n) == [t |-> "int", v |-> n]
JFloat(n) == [t |-> "float", v |-> n]
JNaN == [t |-> "float", nan |-> TRUE]
JBool(b) == [t |-> "bool", b |-> b]
JNull == [t |-> "null"]

\* And(str, len)
IsNonEmptyStr(v) ==
    /\ v.t = "str"
    /\ IF "c" \in DOMAIN v THEN Len(v.c) > 0 ELSE v.s # ""

PREDICT_SCHEMA ==
    [k \in (DOMAIN Case) |->
        CASE k = "CHARGE_COUNT" -> "int"
          [] k = "PRIMARY_CHARGE_FLAG" -> "bool"
          [] k = "COMMITMENT_TERM" -> "str or int or float"
          [] k \in {"LENGTH_OF_CASE_in_Days", "AGE_AT_INCIDENT"} -> "float or int"
          [] k \in {"INCIDENT_CITY", "LAW_ENFORCEMENT_UNIT"} -> "str or None"
          [] OTHER -> "str"]

Accepts(validator, v) ==
    CASE validator = "int" -> v.t = "int"
      [] validator = "bool" -> v.t = "bool"
      [] validator = "str" -> IsNonEmptyStr(v)
      [] validator = "str or int or float" ->
            IsNonEmptyStr(v) \/ v.t = "int" \/ v.t = "float"
      [] validator = "float or int" -> v.t = "float" \/ v.t = "int"
      [] validator = "str or None" -> IsNonEmptyStr(v) \/ v.t = "null"

\* PREDICT_SCHEMA.validate(request.json) raises no SchemaError
Validates(json) ==
    /\ DOMAIN json = DOMAIN PREDICT_SCHEMA
    /\ \A k \in DOMAIN json : Accepts(PREDICT_SCHEMA[k], json[k])

\* the cell pd.DataFrame holds for a validated JSON value
Cell(v) ==
    CASE v.t = "str" -> IF "c" \in DOMAIN v THEN Txt(v.c) ELSE v.s
      [] v.t = "int" -> Num(v.v)
      [] v.t = "float" -> IF "nan" \in DOMAIN v THEN NaN ELSE Num(v.v)
      [] v.t = "bool" -> v.b
      [] v.t = "null" -> NA

\* round(float(x), 3), to the nearest thousandth, halves to the even one
Round3(x) ==
    LET f == (1000 * x.n) \div x.d
        r == 1000 * x.n - f * x.d
    IN  Frac(IF 2 * r < x.d THEN f
             ELSE IF 2 * r > x.d THEN f + 1
             ELSE IF f % 2 = 0 THEN f ELSE f + 1,
             1000)

ModelName == "sentence_pipe_mae1.555_2020-10-10_02h46m24s"

Validate ==
    /\ pc = "request"
    /\ IF Validates(raw)
       THEN /\ input' = DataFrame(<<[k \in DOMAIN raw |-> Cell(raw[k])]>>)
            /\ data' = DataFrame(<<[k \in DOMAIN raw |-> Cell(raw[k])]>>)
            /\ before' = DataFrame(<<[k \in DOMAIN raw |-> Cell(raw[k])]>>)
            /\ pc' = "prison"
            /\ UNCHANGED response
       ELSE /\ response' = [status |-> 404, kind |-> "schema_error"]
            /\ pc' = "responded"
            /\ UNCHANGED <<input, data, before>>
    /\ UNCHANGED <<last, trail, result, raw, estimateVars, scoreVars, topVars>>

\* if isinstance(data, str): return jsonify(message='DATA ERROR: ' + data), 404
RespondDataError ==
    /\ pc = "done"
    /\ result.kind = "reason"
    /\ response' = [status |-> 404, kind |-> "data_error",
                    message |-> <<"DATA ERROR: ", result.msg>>]
    /\ pc' = "responded"
    /\ UNCHANGED <<input, data, before, last, trail, result, raw>>
    /\ UNCHANGED <<estimateVars, scoreVars, topVars>>

\* an exception out of clean_data is caught nowhere in predict(): the
\* request fails with the server's internal error
PredictRaises ==
    /\ pc = "done"
    /\ result.kind = "raise"
    /\ response' = [status |-> 500, kind |-> "unhandled", error |-> result.msg]
    /\ pc' = "responded"
    /\ UNCHANGED <<input, data, before, last, trail, result, raw>>
    /\ UNCHANGED <<estimateVars, scoreVars, topVars>>

RespondSuccess ==
    /\ pc = "done"
    /\ result.kind = "data"
    /\ LET e == estimate_discrepancy(model, data, TRUE)
           percent_discrepancy ==
               [i \in 1..Len(data) |-> Frac(e.diff[i], e.pred[i])]
           severity == discrepancy_percentile(percent_discrepancy, test_discrepancies)
       IN  /\ est' = e
           /\ new_discrepancy' = percent_discrepancy
           /\ percentile' = severity
           /\ response' =
                 [status |-> 200, kind |-> "success",
                  sentencing_discrepancy |-> Round3(Frac(e.diff[1], 1)),
                  severity |-> Round3(severity[1]),
                  model_name |-> ModelName]
    /\ pc' = "responded"
    /\ UNCHANGED <<input, data, before, last, trail, result, raw>>
    /\ UNCHANGED <<model, counterfactual, legacy, test_discrepancies, topVars>>

----------------------------------------------------------------------------
(* Requests *)

MaxTermLen == 2

TermChars == {"1", "2", "-", "a"}

TermTexts == UNION {[1..k -> TermChars] : k \in 0..MaxTermLen}

CaseJson ==
    [k \in (DOMAIN Case) |->
        CASE k \in {"CHARGE_COUNT", "LENGTH_OF_CASE_in_Days", "AGE_AT_INCIDENT"} ->
                JInt(Case[k].v)
          [] k = "COMMITMENT_TERM" -> JFloat(10)
          [] k = "PRIMARY_CHARGE_FLAG" -> JBool(TRUE)
          [] k \in {"INCIDENT_CITY", "LAW_ENFORCEMENT_UNIT"} -> JNull
          [] OTHER -> JStr(Case[k])]

Requests ==
    {[CaseJson EXCEPT !["SENTENCE_TYPE"] = st, !["RACE"] = race,
                      !["COMMITMENT_TERM"] = term, !["COMMITMENT_UNIT"] = unit,
                      !["AGE_AT_INCIDENT"] = age, !["INCIDENT_CITY"] = city] :
        st \in {JStr("Prison"), JStr("Jail"), JStr("")},
        race \in {JStr("Black"), JStr("White [Hispanic or Latino]"),
                  JStr("Unknown"), JStr("black"), JInt(1)},
        term \in {JText(c) : c \in TermTexts}
                    \cup {JInt(24), JFloat(50000), JNaN, JNull},
        unit \in {JStr("Year(s)"), JStr("Days"), JStr("Natural Life"), JStr("Weeks")},
        age \in {JInt(22), JNaN, JStr("22")},
        city \in {JNull, JStr("Chicago"), JStr("")}}
    \cup {[k \in (DOMAIN CaseJson) \ {"CHARGE_COUNT"} |-> CaseJson[k]],
          [k \in (DOMAIN CaseJson) \cup {"NOTE"} |->
              IF k = "NOTE" THEN JStr("x") ELSE CaseJson[k]],
          JNull}

ReferenceFile == <<Frac(10, 100), Frac(-20, 100), Frac(30, 100), Frac(40, 100)>>

InitPredict ==
    /\ pc = "request"
    /\ raw \in Requests
    /\ response = [kind |-> "none"]
    /\ input = <<>> /\ data = <<>> /\ before = <<>>
    /\ last = "call"
    /\ trail = <<>>
    /\ result = [kind |-> "none", msg |-> ""]
    /\ model \in Models
    /\ counterfactual = <<>> /\ est = <<>> /\ legacy = <<>>
    /\ test_discrepancies = ReferenceFile
    /\ new_discrepancy = <<>> /\ percentile = <<>>
    /\ NoTopN

predict ==
    \/ Validate
    \/ clean_data
    \/ RespondDataError
    \/ PredictRaises
    \/ RespondSuccess

SpecPredict == InitPredict /\ [][predict]_vars

\* C2: per-request processing has only two error kinds: every request ends
\* in a success response, a schema validation error or a data rejection
\* reason, and every record PREDICT_SCHEMA accepts makes clean_data return a
\* cleaned row or a rejection reason, never fail otherwise.
C2_TwoErrorKinds ==
    /\ pc = "responded" => response.kind \in {"success", "schema_error", "data_error"}
    /\ pc = "done" => result.kind \in {"data", "reason"}

----------------------------------------------------------------------------
(* The cleaner's output as the counterfactual generator's input *)

\* C11: whenever clean_data returns a cleaned batch, every row's RACE is one
\* of Black, White, HISPANIC, Asian, American Indian, the keys of the
\* counterfactual map; so make_counterfactual applied to that batch gives no
\* row a missing RACE, and gives every row a RACE other than its own.
C11_CleanRaceIsCounterfactualKey ==
    (pc = "done" /\ result.kind = "data") =>
        LET switched == make_counterfactual(data).out
        IN  /\ Len(switched) = Len(data)
            /\ \A i \in 1..Len(data) :
                  /\ data[i]["RACE"] \in
                        {"Black", "White", "HISPANIC", "Asian", "American Indian"}
                  /\ switched[i]["RACE"] \in {"Black", "White"}
                  /\ switched[i]["RACE"] # data[i]["RACE"]

\* C11 witness: a batch of a Biracial row and an ASIAN row came back cleaned
\* as Black and Asian, and both switch to White.
C11_Witness ==
    /\ pc = "done"
    /\ result.kind = "data"
    /\ Len(input) = 2
    /\ Len(data) = 2
    /\ input[1]["RACE"] = "Biracial"
    /\ input[2]["RACE"] = "ASIAN"
    /\ data[1]["RACE"] = "Black"
    /\ data[2]["RACE"] = "Asian"
    /\ \A i \in 1..2 : make_counterfactual(data).out[i]["RACE"] = "White"

====
